---- MODULE Spec2Model ----
(***************************************************************************)
(* express-async-methods: the once guard (src/utils/once.js), the handler  *)
(* wrappers wrap / wrapParam and their shared body _mainWrap               *)
(* (src/index.js), driven by a routing framework that dispatches one       *)
(* request through a chain of registered layers.                           *)
(*                                                                         *)
(* JavaScript runs one call stack to completion: `stack` holds the layers  *)
(* whose handler is in its synchronous part, innermost last.  Everything   *)
(* the wrapper does inside one synchronous stretch is one action.          *)
(***************************************************************************)
EXTENDS Integers, Sequences, FiniteSets, TLC

\* ------------------------------------------------------------- bounds
ChainLen == 2        \* layers registered on the routable
MaxLog == 3          \* calls one continuation may receive before the handler stops calling
MaxCalls == 4        \* calls of one guarded function
MaxArity == 5        \* largest declared parameter count given to wrap / wrapParam
MaxWrapped == 2      \* functions wrapped in one run
MaxDepth == 2        \* nesting depth of the sequences given to the classifier
MaxObjs == 3         \* routable objects (routers and sub-routes) in one run
MaxAugs == 2         \* calls of addAsync and Router in one run

\* ------------------------------------------------------------- values
NoArg == "none"                       \* next() called without argument
\* The code never inspects an error value, so each source of errors has a
\* token of its own.
UpstreamErr == "e0"                   \* raised by a layer before the chain
Errors == {"e1"}                      \* thrown, or rejected with, by a handler
OwnErr == "e2"                        \* passed on by a handler's own code
ContErr == "contErr"                  \* what a throwing continuation throws
TypeErr == "TypeError"                \* raised by the runtime itself
Undefined == "undefined"
ArgVals == {NoArg, UpstreamErr, OwnErr, ContErr, TypeErr} \cup Errors

\* declared parameter counts of the handlers on the chain
DeclaredArities == {3, 4}

Bool2Num(b) == IF b THEN 1 ELSE 0

\* --------------------------------------------------- src/index.js wrap
isErrorHandler(len) == len = 4

resIndex(len) == 1 + Bool2Num(isErrorHandler(len))

nextIndexFixed(len) == 2

nextIndex(len) == 2 + Bool2Num(isErrorHandler(len))

wrapLengthKeeps(len) == len

wrapLengthThree(len) == 3

wrapLength(len) == IF isErrorHandler(len) THEN 4 ELSE 3

wrapName(len) == IF isErrorHandler(len) THEN "wrappedErrorHandler" ELSE "wrappedMiddleware"

\* A function value, by what the code and the framework read of it: who
\* made it, the declared length of the user function behind it, its own
\* length and name.
UserFn(len) ==
  [kind |-> "function", via |-> "user", decl |-> len, length |-> len,
   name |-> "handler"]

\* wrap(fn): asyncWrapped with its length and name properties defined.
wrap(fn) ==
  [kind |-> "function", via |-> "wrap", decl |-> fn.length,
   length |-> wrapLength(fn.length), name |-> wrapName(fn.length)]

\* ---------------------------------------------- src/index.js wrapParam
ParamNextIndex == 2
ParamResIndex == 1
ParamLength == 5

wrapParamLength(len) == ParamLength

\* wrapParam(fn): wrappedParamMiddleware with its length property defined.
wrapParam(fn) ==
  [kind |-> "function", via |-> "wrapParam", decl |-> fn.length,
   length |-> wrapParamLength(fn.length), name |-> "wrappedParamMiddleware"]

\* _wrapArg: a path or a pattern as it is, a function wrapped, an array
\* mapped; anything else is a TypeError.
_wrapArgFlat(arg) ==
  IF arg.kind = "function" THEN wrap(arg)
  ELSE IF arg.kind \in {"string", "regexp", "array"} THEN arg
  ELSE [kind |-> "TypeError", of |-> arg.kind]

RECURSIVE _wrapArg(_)
_wrapArg(arg) ==
  IF arg.kind = "string" THEN arg
  ELSE IF arg.kind = "function" THEN wrap(arg)
  ELSE IF arg.kind = "array"
    THEN [kind |-> "array", ref |-> "new",
          items |-> [k \in DOMAIN arg.items |-> _wrapArg(arg.items[k])]]
  ELSE IF arg.kind = "regexp" THEN arg
  ELSE [kind |-> "TypeError", of |-> arg.kind]

\* The TypeError thrown inside a (nested) map leaves the whole call.
RECURSIVE Threw(_)
Threw(v) ==
  IF v.kind = "TypeError" THEN TRUE
  ELSE IF v.kind = "array" THEN \E k \in DOMAIN v.items : Threw(v.items[k])
  ELSE FALSE

isPromiseAny(kind) == TRUE

isPromiseThenable(kind) == kind \in {"promise", "thenable"}

\* node:util/types isPromise: true of native promise objects only
isPromise(kind) == kind = "promise"

\* ---------------------------------------------------------------- state
VARIABLES
  chain,        \* the routable's layers, in registration order
  nativeCalls,  \* the calls the routable's native methods received
  regRet,       \* what each call of an Async method returned
  started,      \* the framework has begun dispatching the request
  pc,           \* slot -> "idle" | "running" | "returned" | "pending" | "done"
  args,         \* slot -> the argument list the handler received
  called,       \* slot -> the `called` flag of this invocation's once closure
  guardFn,      \* slot -> the value once() was given (arguments[nextIndex])
  resArg,       \* slot -> the value passed to _mainWrap as `res`
  errArg,       \* slot -> the argument of the continuation call that dispatched it
  from,         \* slot -> the slot whose continuation dispatched it (0: the request)
  retKind,      \* slot -> "none" | "value" | "promise" | "thenable": the handler's result
  outcome,      \* slot -> "none" | "resolved" | "rejected" | "threw"
  err,          \* slot -> the error of a rejection or throw, else NoArg
  log,          \* slot -> the calls that reached the framework's continuation
  seen,         \* slot -> "unread" | "sent" | "unsent": res.headersSent as the wrapper read it
  headersSent,  \* the response's headersSent flag
  stack,        \* slots whose handler is in its synchronous part, innermost last
  escaped,      \* slot -> the call of the wrapped handler threw to the framework
  unhandled,    \* slot -> the promise of _mainWrap rejected
  gCalled,      \* guard harness: the `called` flag of g = once(fn)
  gStack,       \* guard harness: the calls of g whose fn is running, innermost last
  gN,           \* guard harness: calls of g made so far
  gCalls,       \* guard harness: the arguments and context of each call of g
  fnLog,        \* guard harness: the calls fn received, [args, this]
  gRet,         \* guard harness: how each finished call of g ended
  wrapped,      \* the functions wrap and wrapParam have returned so far
  argIn,        \* classifier: the argument _wrapArg is given
  argOut,       \* classifier: how the call of _wrapArg ended
  kindOf,       \* object -> "none" | "router" | "route": what the framework made it
  installed,    \* object -> the methods addAsync put on it, by name
  mlist,        \* the caller's methods array, shared by the calls that pass it
  augLog,       \* object -> the calls of addAsync on it: [src, given, returned]
  asyncLog      \* the latest call of an installed method: <<[on, name, args, augs, made, result]>>

regVars == <<chain, nativeCalls, regRet>>
chainVars == <<regVars, started, pc, args, called, guardFn, resArg, errArg, from,
               retKind, outcome, err, log, seen, headersSent, stack,
               escaped, unhandled>>
onceVars == <<gCalled, gStack, gN, gCalls, fnLog, gRet>>
argVars == <<argIn, argOut>>
augVars == <<kindOf, installed, mlist, augLog, asyncLog>>
vars == <<chainVars, onceVars, wrapped, argVars, augVars>>

Slots == 1..ChainLen

\* declared parameter counts of the param handlers on the chain
ParamArities == {4}

\* The mutable state as one value, so that the code's functions compose.
\* exc is the exception in flight, "none" outside a call.
St == [pc |-> pc, args |-> args, called |-> called, guardFn |-> guardFn,
       resArg |-> resArg, errArg |-> errArg, from |-> from, retKind |-> retKind,
       outcome |-> outcome, err |-> err, log |-> log, seen |-> seen,
       headersSent |-> headersSent, stack |-> stack,
       escaped |-> escaped, unhandled |-> unhandled, exc |-> "none"]

Commit(s) ==
  /\ pc' = s.pc /\ args' = s.args /\ called' = s.called /\ guardFn' = s.guardFn
  /\ resArg' = s.resArg /\ errArg' = s.errArg /\ from' = s.from
  /\ retKind' = s.retKind /\ outcome' = s.outcome /\ err' = s.err
  /\ log' = s.log /\ seen' = s.seen
  /\ headersSent' = s.headersSent /\ stack' = s.stack
  /\ escaped' = s.escaped /\ unhandled' = s.unhandled

\* arguments[k], k counted from 0
Get(a, k) == IF k + 1 <= Len(a) THEN a[k + 1] ELSE Undefined

\* arguments[k] = v as the callee of fn.apply(null, arguments) sees it
Put(a, k, v) == IF k + 1 <= Len(a) THEN [a EXCEPT ![k + 1] = v] ELSE a

\* ------------------------------------------------- src/utils/once.js
\* onceWrapped's test and set of `called`: whether fn is applied by this
\* call, and the flag as it stands while (and after) fn runs.
onceGateForgets(c) == [apply |-> ~c, called |-> c]

onceGate(c) == [apply |-> ~c, called |-> TRUE]

\* fn.apply(this, arguments): what fn receives from the call of the guard.
onceForward(a, c) == [args |-> a, this |-> c]

\* The value a call of the guard returns when fn returned v: the result of
\* fn.apply is dropped.
onceResultPasses(v) == v

onceResult(v) == Undefined

\* ------------------------------------------- the routing framework
\* The framework's arity convention: a layer of length 4 is an error handler
\* and runs only on an error; any other layer of length at most 3 runs only
\* without one; a param hook runs only without one.
Eligible(layer, arg) ==
  IF layer.hook = "param" THEN arg = NoArg
  ELSE IF arg = NoArg THEN layer.length <= 3
  ELSE layer.length = 4

Min(S) == CHOOSE x \in S : \A y \in S : x <= y

\* The layer after slot i that a continuation call with arg reaches; 0: none.
NextLayer(i, arg) ==
  LET c == {j \in DOMAIN chain : j > i /\ Eligible(chain[j], arg)}
  IN IF c = {} THEN 0 ELSE Min(c)

\* The arguments the framework calls a layer with.
FrameworkArgs(layer, arg) ==
  IF layer.hook = "param" THEN <<"req", "res", "next", "val", "name">>
  ELSE IF arg = NoArg THEN <<"req", "res", "next">>
  ELSE <<arg, "req", "res", "next">>

\* ------------------------------------------------------ src/index.js
\* _mainWrap up to fn.apply(null, args): the handler starts, synchronously.
mainWrapCall(s, j, a, res) ==
  [s EXCEPT !.args[j] = a, !.resArg[j] = res, !.pc[j] = "running",
            !.stack = Append(@, j)]

\* The body shared by asyncWrapped and wrappedParamMiddleware: the once
\* guard replaces arguments[ni], then _mainWrap gets arguments[ri] as res.
wrappedCall(s, j, fargs, ni, ri) ==
  LET a == Put(fargs, ni, "guard")
      res == IF ri = ni THEN "guard" ELSE Get(a, ri)
  IN mainWrapCall([s EXCEPT !.guardFn[j] = Get(fargs, ni), !.called[j] = FALSE],
                  j, a, res)

asyncWrapped(s, j, fargs) ==
  wrappedCall(s, j, fargs, nextIndex(chain[j].decl), resIndex(chain[j].decl))

wrappedParamLikeWrap(s, j, fargs) ==
  wrappedCall(s, j, fargs, nextIndex(chain[j].decl), resIndex(chain[j].decl))

wrappedParamMiddleware(s, j, fargs) ==
  wrappedCall(s, j, fargs, ParamNextIndex, ParamResIndex)

\* ------------------------------------------- the routing framework
\* The framework calls the next eligible layer, once per request.
dispatch(s, i, arg) ==
  LET j == NextLayer(i, arg)
  IN IF j = 0 \/ s.pc[j] # "idle" THEN s
     ELSE LET s1 == [s EXCEPT !.errArg[j] = arg, !.from[j] = i]
              fargs == FrameworkArgs(chain[j], arg)
          IN IF chain[j].via = "wrapParam"
             THEN wrappedParamMiddleware(s1, j, fargs)
             ELSE asyncWrapped(s1, j, fargs)

\* The continuation the framework handed to slot i, called with arg; thr:
\* this call throws, and then dispatches nothing.
frameworkNext(s, i, arg, by, thr) ==
  LET s1 == [s EXCEPT !.log[i] = Append(@, [arg |-> arg, by |-> by, threw |-> thr])]
  IN IF thr THEN [s1 EXCEPT !.exc = ContErr] ELSE dispatch(s1, i, arg)

\* ------------------------------------------------- src/utils/once.js
\* fn.apply(this, arguments) for the function once() was given.
applyFn(s, i, arg, by, thr) ==
  IF s.guardFn[i] = "next" THEN frameworkNext(s, i, arg, by, thr)
  ELSE [s EXCEPT !.exc = TypeErr]

onceWrappedShared(s, i, arg, by, thr) ==
  LET g == onceGate(s.called[1])
      s1 == [s EXCEPT !.called[1] = g.called]
  IN IF g.apply THEN applyFn(s1, i, arg, by, thr) ELSE s1

\* A call of slot i's guarded continuation.
onceWrapped(s, i, arg, by, thr) ==
  LET g == onceGate(s.called[i])
      s1 == [s EXCEPT !.called[i] = g.called]
  IN IF g.apply THEN applyFn(s1, i, arg, by, thr) ELSE s1

\* ------------------------------------------------------ src/index.js
\* res.headersSent as _mainWrap reads it: "throw" when res is undefined.
readHeadersSent(s, i) ==
  IF s.resArg[i] = "res" THEN (IF s.headersSent THEN "true" ELSE "false")
  ELSE IF s.resArg[i] = Undefined THEN "throw"
  ELSE "false"

\* What the wrapper's first read of res.headersSent gave; a read that
\* raised gave no value, and nothing is noted.
noteSeen(s, i, h) ==
  IF s.seen[i] # "unread" \/ h = "throw" THEN s
  ELSE [s EXCEPT !.seen[i] = IF h = "true" THEN "sent" ELSE "unsent"]

\* An exception leaving the body of the async function _mainWrap rejects
\* the promise it returned; its caller is not interrupted.
asyncExit(s, i) == [s EXCEPT !.exc = "none", !.unhandled[i] = TRUE]

\* asyncWrapped does not catch: an exception still in flight when the call
\* of _mainWrap ends leaves the wrapped handler, into the framework.
wrapperExit(s, i) ==
  IF s.exc # "none" THEN [s EXCEPT !.exc = "none", !.escaped[i] = TRUE] ELSE s

mainWrapCatchBare(s, i, e, thr) ==
  LET h == readHeadersSent(s, i)
      s0 == noteSeen([s EXCEPT !.exc = "none"], i, h)
  IN IF h = "throw" THEN asyncExit(s0, i)
     ELSE IF h = "true" THEN s0
     ELSE LET s1 == onceWrapped(s0, i, NoArg, "wrapper", thr)
          IN IF s1.exc # "none" THEN asyncExit(s1, i) ELSE s1

mainWrapCatchSwallow(s, i, e, thr) ==
  noteSeen([s EXCEPT !.exc = "none"], i, readHeadersSent(s, i))

\* catch (err) { if (!res.headersSent) next(err); }
mainWrapCatch(s, i, e, thr) ==
  LET h == readHeadersSent(s, i)
      s0 == noteSeen([s EXCEPT !.exc = "none"], i, h)
  IN IF h = "throw" THEN asyncExit(s0, i)
     ELSE IF h = "true" THEN s0
     ELSE LET s1 == onceWrapped(s0, i, e, "wrapper", thr)
          IN IF s1.exc # "none" THEN asyncExit(s1, i) ELSE s1

mainWrapThenUnchecked(s, i, thr) ==
  LET s0 == noteSeen(s, i, readHeadersSent(s, i))
      s1 == onceWrapped(s0, i, NoArg, "wrapper", thr)
  IN IF s1.exc # "none" THEN mainWrapCatch(s1, i, s1.exc, thr) ELSE s1

\* After await promise, fulfilled: if (!res.headersSent) next();
mainWrapThen(s, i, thr) ==
  LET h == readHeadersSent(s, i)
      s0 == noteSeen(s, i, h)
  IN IF h = "throw" THEN mainWrapCatch(s0, i, TypeErr, thr)
     ELSE IF h = "true" THEN s0
     ELSE LET s1 == onceWrapped(s0, i, NoArg, "wrapper", thr)
          IN IF s1.exc # "none" THEN mainWrapCatch(s1, i, s1.exc, thr) ELSE s1

mainWrapReturnedEager(s, i, kind) ==
  LET s1 == [s EXCEPT !.retKind[i] = kind,
                      !.pc[i] = IF isPromise(kind) THEN "pending" ELSE "returned"]
  IN IF isPromise(kind)
     THEN [onceWrapped(s1, i, NoArg, "wrapper", FALSE) EXCEPT !.exc = "none"]
     ELSE s1

\* After fn.apply returned: only a promise is awaited.
mainWrapReturned(s, i, kind) ==
  [s EXCEPT !.retKind[i] = kind,
            !.pc[i] = IF isPromise(kind) THEN "pending" ELSE "returned"]

\* ------------------------------------------------------------- actions
Top == stack[Len(stack)]

Pop(q) == SubSeq(q, 1, Len(q) - 1)

\* JavaScript runs to completion: while a handler is in its synchronous
\* part only the innermost one acts; otherwise any invoked handler may act
\* from a later callback.
CanAct(i) ==
  IF stack # <<>> THEN Top = i /\ pc[i] = "running"
  ELSE pc[i] \in {"returned", "pending", "done"}

\* Where the framework put the continuation (counted from 1).
contPos(i) == IF chain[i].hook = "route" /\ errArg[i] # NoArg THEN 4 ELSE 3

\* ------------------------------------------- the routing framework
\* The functions of an argument list in order, arrays flattened: the
\* layers a native registration method adds.
RECURSIVE Functions(_)
Functions(argList) ==
  IF argList = <<>> THEN <<>>
  ELSE LET a == Head(argList)
           first == IF a.kind = "function" THEN <<a>>
                    ELSE IF a.kind = "array" THEN Functions(a.items)
                    ELSE <<>>
       IN first \o Functions(Tail(argList))

AsLayers(fns, hook) == [k \in DOMAIN fns |-> fns[k] @@ [hook |-> hook]]

\* A native registration method returns the routable itself.
NativeResult == "app"

\* ------------------------------------------------------ src/index.js
\* The body of [`${method}Async`]: map.call(arguments, _wrapArg), then
\* app[method](...args) unless the map threw.
asyncMethodEager(method, argList) ==
  LET a2 == [k \in DOMAIN argList |-> _wrapArg(argList[k])]
      ok == {k \in DOMAIN a2 : \A h \in 1..k : ~Threw(a2[h])}
  IN [threw |-> \E k \in DOMAIN a2 : Threw(a2[k]),
      calls |-> <<[method |-> method, args |-> [k \in ok |-> a2[k]]]>>]

asyncMethodBody(method, argList) ==
  LET a2 == [k \in DOMAIN argList |-> _wrapArg(argList[k])]
  IN IF \E k \in DOMAIN a2 : Threw(a2[k])
     THEN [threw |-> TRUE, calls |-> << >>]
     ELSE [threw |-> FALSE, calls |-> <<[method |-> method, args |-> a2]>>]

\* The body of paramAsync: app.param(name, wrapParam(callback)).
paramAsyncBody(name, callback) ==
  [threw |-> FALSE,
   calls |-> <<[method |-> "param", args |-> <<name, wrapParam(callback)>>]>>]

\* app[`${method}Async`](...argList), as addAsync installs it.
verbAsync(method, argList) ==
  /\ ~started
  /\ Len(chain) + Len(Functions(argList)) <= ChainLen
  /\ LET b == asyncMethodBody(method, argList)
     IN /\ nativeCalls' = nativeCalls \o b.calls
        /\ chain' = IF b.calls = << >> THEN chain
                    ELSE chain \o AsLayers(Functions(b.calls[1].args), "route")
        /\ regRet' = Append(regRet, IF b.threw THEN "threw" ELSE NativeResult)
  /\ UNCHANGED <<started, pc, args, called, guardFn, resArg, errArg, from,
                 retKind, outcome, err, log, seen, headersSent, stack,
                 escaped, unhandled, onceVars, wrapped, argVars, augVars>>

\* app.paramAsync(name, callback), as addAsync installs it.
paramAsync(name, callback) ==
  /\ ~started
  /\ Len(chain) < ChainLen
  /\ LET b == paramAsyncBody(name, callback)
     IN /\ nativeCalls' = nativeCalls \o b.calls
        /\ chain' = Append(chain, b.calls[1].args[2] @@ [hook |-> "param"])
        /\ regRet' = Append(regRet, NativeResult)
  /\ UNCHANGED <<started, pc, args, called, guardFn, resArg, errArg, from,
                 retKind, outcome, err, log, seen, headersSent, stack,
                 escaped, unhandled, onceVars, wrapped, argVars, augVars>>

\* The framework takes up the request; arg is what the layers before the
\* chain passed on (an error, or nothing).
Start(arg) ==
  /\ ~started
  /\ started' = TRUE
  /\ Commit(dispatch(St, 0, arg))
  /\ UNCHANGED <<regVars, onceVars, wrapped, argVars, augVars>>

\* The handler's own code calls the continuation parameter it was given.
HandlerCallsNext(i, arg, thr) ==
  /\ CanAct(i)
  /\ Len(log[i]) < MaxLog
  /\ chain[i].decl >= contPos(i)
  /\ LET v == args[i][contPos(i)]
         s1 == IF v = "guard" THEN onceWrapped(St, i, arg, "handler", thr)
               ELSE IF v = "next" THEN frameworkNext(St, i, arg, "handler", thr)
               ELSE St
     IN Commit([s1 EXCEPT !.exc = "none"])
  /\ UNCHANGED <<regVars, started, onceVars, wrapped, argVars, augVars>>

\* The handler's own code sends the response.
HandlerSend(i) ==
  /\ CanAct(i)
  /\ ~headersSent
  /\ Commit([St EXCEPT !.headersSent = TRUE])
  /\ UNCHANGED <<regVars, started, onceVars, wrapped, argVars, augVars>>

\* The handler's synchronous part returns a value of the given kind.
HandlerReturn(i, kind) ==
  /\ stack # <<>> /\ Top = i /\ pc[i] = "running"
  /\ Commit(mainWrapReturned([St EXCEPT !.stack = Pop(@)], i, kind))
  /\ UNCHANGED <<regVars, started, onceVars, wrapped, argVars, augVars>>

\* The handler's synchronous part throws e: _mainWrap catches it at once.
HandlerThrow(i, e, thr) ==
  /\ stack # <<>> /\ Top = i /\ pc[i] = "running"
  /\ Commit(wrapperExit(mainWrapCatch([St EXCEPT !.stack = Pop(@), !.pc[i] = "done",
                                                 !.outcome[i] = "threw", !.err[i] = e],
                                      i, e, thr), i))
  /\ UNCHANGED <<regVars, started, onceVars, wrapped, argVars, augVars>>

\* The promise the handler returned settles and _mainWrap resumes after
\* its await.
Resume(i, o, e, thr) ==
  /\ stack = <<>>
  /\ pc[i] = "pending"
  /\ (o = "resolved") = (e = NoArg)
  /\ LET s0 == [St EXCEPT !.pc[i] = "done", !.outcome[i] = o, !.err[i] = e]
     IN Commit(IF o = "resolved" THEN mainWrapThen(s0, i, thr)
               ELSE mainWrapCatch(s0, i, e, thr))
  /\ UNCHANGED <<regVars, started, onceVars, wrapped, argVars, augVars>>

\* The thenable the handler returned settles: nothing awaits it.
Settle(i, o, e) ==
  /\ stack = <<>>
  /\ outcome[i] = "none"
  /\ pc[i] = "returned" /\ retKind[i] = "thenable"
  /\ (o = "resolved") = (e = NoArg)
  /\ Commit([St EXCEPT !.outcome[i] = o, !.err[i] = e])
  /\ UNCHANGED <<regVars, started, onceVars, wrapped, argVars, augVars>>

OnceIdle ==
  /\ gCalled = FALSE /\ gStack = <<>> /\ gN = 0 /\ gCalls = <<>>
  /\ fnLog = <<>> /\ gRet = <<>>

ChainIdle ==
  /\ started = FALSE
  /\ pc = [i \in Slots |-> "idle"]
  /\ args = [i \in Slots |-> <<>>]
  /\ called = [i \in Slots |-> FALSE]
  /\ guardFn = [i \in Slots |-> Undefined]
  /\ resArg = [i \in Slots |-> Undefined]
  /\ errArg = [i \in Slots |-> NoArg]
  /\ from = [i \in Slots |-> 0]
  /\ retKind = [i \in Slots |-> "none"]
  /\ outcome = [i \in Slots |-> "none"]
  /\ err = [i \in Slots |-> NoArg]
  /\ log = [i \in Slots |-> <<>>]
  /\ seen = [i \in Slots |-> "unread"]
  /\ headersSent = FALSE
  /\ stack = <<>>
  /\ escaped = [i \in Slots |-> FALSE]
  /\ unhandled = [i \in Slots |-> FALSE]

WrapIdle == wrapped = <<>>

NotCalled == [kind |-> "not called"]

ArgIdle == argIn = NotCalled /\ argOut = NotCalled

Objs == 1..MaxObjs

\* One router exists, not augmented; nothing has been called.
ObjIdle ==
  /\ kindOf = [o \in Objs |-> IF o = 1 THEN "router" ELSE "none"]
  /\ installed = [o \in Objs |-> << >>]
  /\ augLog = [o \in Objs |-> << >>]
  /\ asyncLog = << >>

AugIdle == ObjIdle /\ mlist = << >>

RegIdle == chain = <<>> /\ nativeCalls = <<>> /\ regRet = <<>>

Init ==
  /\ RegIdle
  /\ ChainIdle
  /\ OnceIdle
  /\ WrapIdle
  /\ ArgIdle
  /\ AugIdle

PathArg == [kind |-> "string", value |-> "/"]
ParamName == [kind |-> "string", value |-> "id"]

Next ==
  \/ \E len \in DeclaredArities : verbAsync("use", <<UserFn(len)>>)
  \/ \E len \in ParamArities : paramAsync(ParamName, UserFn(len))
  \/ \E arg \in {NoArg, UpstreamErr} : Start(arg)
  \/ \E i \in Slots, arg \in {NoArg, OwnErr}, thr \in BOOLEAN :
       HandlerCallsNext(i, arg, thr)
  \/ \E i \in Slots : HandlerSend(i)
  \/ \E i \in Slots, kind \in {"value", "promise", "thenable"} : HandlerReturn(i, kind)
  \/ \E i \in Slots, e \in Errors, thr \in BOOLEAN : HandlerThrow(i, e, thr)
  \/ \E i \in Slots, o \in {"resolved", "rejected"}, e \in {NoArg} \cup Errors :
       Settle(i, o, e)
  \/ \E i \in Slots, o \in {"resolved", "rejected"}, e \in {NoArg} \cup Errors, thr \in BOOLEAN :
       Resume(i, o, e, thr)

Spec == Init /\ [][Next]_vars

\* ------------------------------------------------------------- claims
Entry(arg, by, thr) == [arg |-> arg, by |-> by, threw |-> thr]

\* The handler's own code reached the framework's continuation.
ByHandler(i) == \E k \in DOMAIN log[i] : log[i][k].by = "handler"

\* No layer after slot i has been invoked.
LaterIdle(i) == \A j \in Slots : j > i => pc[j] = "idle"

\* C1: for one invocation of a wrapped handler the framework's continuation
\* is invoked at most once, whoever tries: the handler, the wrapper after a
\* success, the wrapper after a failure, and when the continuation throws.
C1_AtMostOnce == \A i \in Slots : Len(log[i]) <= 1

\* A handler called next() itself and its promise then resolved with the
\* response unsent (the wrapper's call was suppressed); in another
\* invocation the wrapper's next() threw and its catch tried again.
C1_Witness ==
  \E i, j \in Slots :
    /\ pc[i] = "done" /\ outcome[i] = "resolved" /\ seen[i] = "unsent"
    /\ log[i] = <<Entry(NoArg, "handler", FALSE)>>
    /\ pc[j] = "done" /\ outcome[j] = "resolved" /\ seen[j] = "unsent"
    /\ log[j] = <<Entry(NoArg, "wrapper", TRUE)>>

\* C2 as stated: after a successful settlement the continuation has been
\* invoked exactly once, without argument, unless the response was sent,
\* and then not at all and no later handler runs.
C2_AsStated ==
  \A i \in Slots :
    pc[i] = "done" /\ outcome[i] = "resolved" =>
      IF seen[i] = "sent" THEN log[i] = <<>> /\ LaterIdle(i)
      ELSE Len(log[i]) = 1 /\ log[i][1].arg = NoArg

\* C2, amended: the same, for a handler whose own code does not invoke the
\* continuation; "sent" is what the wrapper reads when it resumes.
C2_Success ==
  \A i \in Slots :
    pc[i] = "done" /\ outcome[i] = "resolved" /\ ~ByHandler(i) =>
      IF seen[i] = "sent" THEN log[i] = <<>> /\ LaterIdle(i)
      ELSE /\ Len(log[i]) = 1
           /\ log[i][1].arg = NoArg /\ log[i][1].by = "wrapper"

\* One handler resolved unsent and the wrapper passed on; the next one sent
\* the response and resolved, and the wrapper stayed silent.
C2_Witness ==
  \E i, j \in Slots :
    /\ pc[i] = "done" /\ outcome[i] = "resolved" /\ seen[i] = "unsent"
    /\ log[i] = <<Entry(NoArg, "wrapper", FALSE)>>
    /\ from[j] = i
    /\ pc[j] = "done" /\ outcome[j] = "resolved" /\ seen[j] = "sent"
    /\ log[j] = <<>>

\* C3 as stated: after a rejection with e the continuation has been invoked
\* exactly once, with e, unless the response was sent.
C3_AsStated ==
  \A i \in Slots :
    pc[i] = "done" /\ outcome[i] = "rejected" /\ seen[i] # "sent" =>
      Len(log[i]) = 1 /\ log[i][1].arg = err[i]

\* C3, amended: the same, for a handler whose own code does not invoke the
\* continuation; the layer the call reaches receives e itself.
C3_Failure ==
  \A i \in Slots :
    pc[i] = "done" /\ outcome[i] = "rejected" /\ ~ByHandler(i) =>
      IF seen[i] = "sent" THEN log[i] = <<>>
      ELSE /\ Len(log[i]) = 1
           /\ log[i][1].arg = err[i] /\ log[i][1].by = "wrapper"
           /\ \A j \in Slots :
                pc[j] # "idle" /\ from[j] = i =>
                  errArg[j] = err[i] /\ args[j][1] = err[i]

\* A promise rejected with e1, the wrapper called next(e1), and an error
\* handler received e1.
C3_Witness ==
  \E i, j \in Slots :
    /\ pc[i] = "done" /\ outcome[i] = "rejected" /\ err[i] = "e1"
    /\ log[i] = <<Entry("e1", "wrapper", FALSE)>>
    /\ pc[j] # "idle" /\ from[j] = i /\ args[j][1] = "e1"

\* C4 as stated: the call of the wrapped handler never throws, and every
\* failure of the handler ends in a continuation call with the error.
C4_AsStated ==
  \A i \in Slots :
    /\ ~escaped[i]
    /\ pc[i] = "done" /\ outcome[i] \in {"threw", "rejected"} =>
         \E k \in DOMAIN log[i] : log[i][k].arg = err[i]

\* C4, amended: the call of the wrapped handler never throws; a synchronous
\* throw or the rejection of the returned promise ends in one continuation
\* call with the error when the response is unsent and the handler's own
\* code has not invoked the continuation, and in no call by the wrapper when
\* the response is sent; the promise of _mainWrap rejects only when that
\* continuation call itself throws.
C4_Contained ==
  \A i \in Slots :
    /\ ~escaped[i]
    /\ pc[i] = "done" /\ outcome[i] \in {"threw", "rejected"} /\ ~ByHandler(i) =>
         IF seen[i] = "sent" THEN log[i] = <<>>
         ELSE Len(log[i]) = 1 /\ log[i][1].arg = err[i] /\ log[i][1].by = "wrapper"
    /\ unhandled[i] => Len(log[i]) = 1 /\ log[i][1].threw

\* A handler that is not async threw synchronously and the wrapper called
\* next(e1); the error handler it reached rejected, and the wrapper called
\* next(e1) again for that one.
C4_Witness ==
  \E i, j \in Slots :
    /\ pc[i] = "done" /\ outcome[i] = "threw" /\ retKind[i] = "none"
    /\ log[i] = <<Entry("e1", "wrapper", FALSE)>>
    /\ from[j] = i
    /\ pc[j] = "done" /\ outcome[j] = "rejected"
    /\ log[j] = <<Entry("e1", "wrapper", FALSE)>>

\* C5: when the handler returns a value that is not a promise the wrapper
\* never reads headersSent nor invokes the continuation; only the handler's
\* own calls reach it, and such a call lets the next layer run.
C5_SyncUntouched ==
  \A i \in Slots :
    retKind[i] = "value" =>
      /\ seen[i] = "unread"
      /\ \A k \in DOMAIN log[i] : log[i][k].by = "handler"
      /\ \A k \in DOMAIN log[i] :
           LET j == NextLayer(i, log[i][k].arg)
           IN ~log[i][k].threw /\ j # 0 => pc[j] # "idle" /\ from[j] = i

\* A synchronous middleware called next() and returned; the next layer ran.
C5_Witness ==
  \E i, j \in Slots :
    /\ retKind[i] = "value" /\ pc[i] = "returned"
    /\ log[i] = <<Entry(NoArg, "handler", FALSE)>>
    /\ from[j] = i /\ pc[j] # "idle"

\* The same user function registered with the native method: the framework
\* reads its declared length.
NativeEligible(layer, arg) ==
  IF layer.hook = "param" THEN arg = NoArg
  ELSE IF arg = NoArg THEN layer.decl <= 3
  ELSE layer.decl = 4

\* The layer a continuation call after slot i reaches in the native chain.
NativeNext(i, arg) ==
  LET c == {j \in DOMAIN chain : j > i /\ NativeEligible(chain[j], arg)}
  IN IF c = {} THEN 0 ELSE Min(c)

\* The continuation call of the hand-written equivalent of a finished
\* handler: next() after a success, next(e) after a failure with e.
RefArg(i) == IF outcome[i] = "resolved" THEN NoArg ELSE err[i]

\* A continuation call after slot i with arg a was dispatched as the
\* native chain dispatches it.
DispatchedNatively(i, a) ==
  LET j == NativeNext(i, a)
  IN j # 0 => pc[j] # "idle" /\ from[j] = i /\ errArg[j] = a

\* C7 as stated: every finished handler of an Async chain has had the
\* effect of its hand-written equivalent: one continuation call with
\* RefArg, dispatched as in the native chain.
C7_AsStated ==
  \A i \in Slots :
    pc[i] = "done" =>
      /\ \E k \in DOMAIN log[i] : log[i][k].arg = RefArg(i)
      /\ (\A k \in DOMAIN log[i] : ~log[i][k].threw) => DispatchedNatively(i, RefArg(i))

\* C7, amended: layers run in the order of the native chain, each called
\* with the native arguments; a handler's own continuation call is
\* dispatched as in the native chain; and a finished handler has had the
\* effect of its hand-written equivalent when the response is unsent as the
\* wrapper resumes and the handler's own code has not invoked the
\* continuation.  Handlers declared with at most 4 parameters keep the
\* arity class that the framework dispatches on.
C7_Refines ==
  /\ \A len \in 0..4, a \in {NoArg, UpstreamErr} :
       Eligible(wrap(UserFn(len)) @@ [hook |-> "route"], a)
         = NativeEligible(UserFn(len) @@ [hook |-> "route"], a)
  /\ \A j \in Slots :
       pc[j] # "idle" =>
         /\ j = NativeNext(from[j], errArg[j])
         /\ Len(args[j]) = Len(FrameworkArgs(chain[j], errArg[j]))
  /\ \A i \in Slots :
       \A k \in DOMAIN log[i] :
         ~log[i][k].threw => DispatchedNatively(i, log[i][k].arg)
  /\ \A i \in Slots :
       pc[i] = "done" /\ seen[i] = "unsent" /\ ~ByHandler(i) =>
         /\ Len(log[i]) = 1 /\ log[i][1].arg = RefArg(i)

\* As in the repository's comparison test: a synchronous middleware called
\* next() itself, the next handler's promise resolved and the wrapper
\* called next() for it.
C7_Witness ==
  \E i, j \in Slots :
    /\ retKind[i] = "value" /\ log[i] = <<Entry(NoArg, "handler", FALSE)>>
    /\ from[j] = i
    /\ pc[j] = "done" /\ outcome[j] = "resolved"
    /\ log[j] = <<Entry(NoArg, "wrapper", FALSE)>>

\* C9: a handler declared with 4 parameters receives the error unchanged
\* at index 0, the guard at index 3, and the wrapper reads the response at
\* index 2; any other handler receives the guard at index 2 and the
\* wrapper reads the response at index 1.  An error handler that calls its
\* continuation with a new error hands that error, once, to the next
\* error handler.
C9_Indices ==
  /\ \A i \in Slots :
       pc[i] # "idle" /\ chain[i].hook = "route" =>
         LET given == FrameworkArgs(chain[i], errArg[i])
         IN /\ guardFn[i] = "next"
            /\ IF chain[i].decl = 4
               THEN /\ args[i] = <<errArg[i], "req", "res", "guard">>
                    /\ errArg[i] # NoArg
                    /\ resArg[i] = Get(given, 2) /\ resArg[i] = "res"
               ELSE /\ args[i] = <<"req", "res", "guard">>
                    /\ resArg[i] = Get(given, 1) /\ resArg[i] = "res"
  /\ \A i \in Slots :
       /\ pc[i] # "idle" /\ chain[i].hook = "route" /\ chain[i].decl = 4
       /\ log[i] # <<>> /\ log[i][1] = Entry(OwnErr, "handler", FALSE)
       => /\ Len(log[i]) = 1
          /\ LET j == NextLayer(i, OwnErr)
             IN j # 0 => /\ pc[j] # "idle" /\ from[j] = i
                         /\ chain[j].length = 4 /\ args[j][1] = OwnErr

\* As in the repository's test of async error handlers: an error handler
\* received e0, called next(e2), its promise resolved (the wrapper's call
\* was suppressed), and the next error handler received e2.
C9_Witness ==
  \E i, j \in DOMAIN chain :
    /\ chain[i].decl = 4 /\ args[i] = <<UpstreamErr, "req", "res", "guard">>
    /\ pc[i] = "done" /\ outcome[i] = "resolved" /\ seen[i] = "unsent"
    /\ log[i] = <<Entry(OwnErr, "handler", FALSE)>>
    /\ from[j] = i /\ args[j] = <<OwnErr, "req", "res", "guard">>

ParamHook(j) == j \in DOMAIN chain /\ chain[j].hook = "param"

\* What paramAsync registers and returns, and what the wrapped param
\* handler passes on.
ParamRegistered ==
  /\ \A k \in DOMAIN chain :
       chain[k].hook = "param" =>
         /\ nativeCalls[k].method = "param"
         /\ nativeCalls[k].args[1] = ParamName
         /\ nativeCalls[k].args[2].via = "wrapParam"
         /\ nativeCalls[k].args[2].decl \in ParamArities
         /\ nativeCalls[k].args[2].length = 5
         /\ regRet[k] = NativeResult
  /\ \A j \in Slots :
       ParamHook(j) /\ pc[j] # "idle" =>
         /\ args[j] = <<"req", "res", "guard", "val", "name">>
         /\ guardFn[j] = "next" /\ resArg[j] = "res"

\* C10 as stated: paramAsync registers wrapParam(h) and returns the native
\* result; the wrapped param handler forwards its arguments with only the
\* continuation guarded; after a success with the response unsent the
\* continuation has fired exactly once without argument, after a failure
\* once with the error.
C10_AsStated ==
  /\ ParamRegistered
  /\ \A j \in Slots :
       ParamHook(j) /\ pc[j] = "done" =>
         IF outcome[j] = "resolved"
         THEN seen[j] = "unsent" => Len(log[j]) = 1 /\ log[j][1].arg = NoArg
         ELSE Len(log[j]) = 1 /\ log[j][1].arg = err[j]

\* C10, amended: the same, with the wrapper's part as for wrap: for a
\* handler whose own code does not invoke the continuation, one call
\* without argument after a success and one call with the error after a
\* failure when the response is unsent, and none when it is sent.
C10_Param ==
  /\ ParamRegistered
  /\ \A j \in Slots :
       ParamHook(j) /\ pc[j] = "done" /\ ~ByHandler(j) =>
         IF seen[j] = "sent" THEN log[j] = <<>>
         ELSE /\ Len(log[j]) = 1
              /\ log[j][1].arg = RefArg(j) /\ log[j][1].by = "wrapper"

\* A param handler resolved with the response unsent, the wrapper called
\* next(), and the route handler after it ran.
C10_Witness ==
  \E i, j \in Slots :
    /\ ParamHook(i) /\ regRet[i] = NativeResult
    /\ args[i] = <<"req", "res", "guard", "val", "name">>
    /\ pc[i] = "done" /\ outcome[i] = "resolved"
    /\ log[i] = <<Entry(NoArg, "wrapper", FALSE)>>
    /\ from[j] = i /\ pc[j] # "idle"

\* C16: the handler runs as soon as the wrapped handler is called; the
\* wrapper invokes the continuation on its own only once the handler has
\* settled (its promise resolved or rejected, or it threw), so never while
\* the promise is pending; and a later handler of the chain starts only
\* after an earlier one settled or called the continuation itself.
C16_NotBeforeSettled ==
  \A i \in Slots :
    /\ (guardFn[i] # Undefined) = (pc[i] # "idle")
    /\ pc[i] # "idle" => args[i] # << >>
    /\ \A k \in DOMAIN log[i] :
         log[i][k].by = "wrapper" => pc[i] = "done" /\ outcome[i] # "none"
    /\ pc[i] = "pending" => outcome[i] = "none" /\ ~(\E k \in DOMAIN log[i] : log[i][k].by = "wrapper")
    /\ pc[i] # "idle" /\ from[i] # 0 =>
         /\ from[i] < i /\ log[from[i]] # << >>
         /\ log[from[i]][1].arg = errArg[i]
         /\ log[from[i]][1].by = "handler" \/ outcome[from[i]] # "none"

\* One handler resolved and the wrapper passed on; the next one returned a
\* promise that has not settled: no continuation call, nothing after it.
C16_Witness ==
  \E i, j \in Slots :
    /\ pc[i] = "done" /\ outcome[i] = "resolved"
    /\ log[i] = <<Entry(NoArg, "wrapper", FALSE)>>
    /\ from[j] = i /\ pc[j] = "pending" /\ stack = << >>
    /\ log[j] = << >> /\ LaterIdle(j)

\* C18 as stated: whenever the handler returned a promise or any other
\* thenable that has settled, with the response unsent and the
\* continuation not invoked by the handler, the wrapper has invoked the
\* continuation: without argument after a success, with the error after a
\* failure.
C18_AsStated ==
  \A i \in Slots :
    /\ retKind[i] \in {"promise", "thenable"} /\ outcome[i] # "none"
    /\ ~headersSent /\ ~ByHandler(i)
    => Len(log[i]) = 1 /\ log[i][1].arg = RefArg(i) /\ log[i][1].by = "wrapper"

\* C18, amended: that holds when the result is a native promise; for a
\* thenable that is not one the wrapper does not wait, never reads
\* headersSent and never invokes the continuation, settled or not.
C18_NativeOnly ==
  \A i \in Slots :
    /\ /\ retKind[i] = "promise" /\ outcome[i] # "none"
       /\ ~headersSent /\ ~ByHandler(i)
       => Len(log[i]) = 1 /\ log[i][1].arg = RefArg(i) /\ log[i][1].by = "wrapper"
    /\ retKind[i] = "thenable" =>
         /\ pc[i] = "returned" /\ seen[i] = "unread"
         /\ \A k \in DOMAIN log[i] : log[i][k].by = "handler"

\* One handler returned a promise that rejected and the wrapper passed the
\* error on; the error handler returned a thenable that rejected, and the
\* continuation was not invoked.
C18_Witness ==
  \E i, j \in Slots :
    /\ retKind[i] = "promise" /\ outcome[i] = "rejected"
    /\ log[i] = <<Entry(err[i], "wrapper", FALSE)>>
    /\ from[j] = i
    /\ retKind[j] = "thenable" /\ outcome[j] = "rejected" /\ log[j] = << >>

\* ------------------------------------------------- two requests, one handler
\* The router holds one wrapped handler and nothing after it; each request
\* invokes it anew.  chain lists the handler once per invocation, the
\* invocations taking the slots from the last down, so that a continuation
\* call reaches no further layer.  Each request has its own response, and
\* none is sent.
SameHandler(len) == [k \in Slots |-> wrap(UserFn(len)) @@ [hook |-> "route"]]

\* A request arrives and the framework calls the handler for it.
Arrive(arg) ==
  /\ stack = << >>
  /\ \E j \in Slots :
       /\ pc[j] = "idle" /\ \A h \in Slots : h > j => pc[h] # "idle"
       /\ Eligible(chain[j], arg)
       /\ Commit(asyncWrapped([St EXCEPT !.errArg[j] = arg, !.from[j] = 0], j,
                              FrameworkArgs(chain[j], arg)))
  /\ UNCHANGED <<regVars, started, onceVars, wrapped, argVars, augVars>>

InitTwo ==
  /\ ChainIdle
  /\ OnceIdle
  /\ WrapIdle
  /\ ArgIdle
  /\ AugIdle
  /\ \E len \in DeclaredArities :
       /\ chain = SameHandler(len)
       /\ nativeCalls = <<[method |-> "use", args |-> <<wrap(UserFn(len))>>]>>
       /\ regRet = <<NativeResult>>

NextTwo ==
  \/ \E arg \in {NoArg, UpstreamErr} : Arrive(arg)
  \/ \E i \in Slots, arg \in {NoArg, OwnErr}, thr \in BOOLEAN :
       HandlerCallsNext(i, arg, thr)
  \/ \E i \in Slots, kind \in {"value", "promise", "thenable"} : HandlerReturn(i, kind)
  \/ \E i \in Slots, e \in Errors, thr \in BOOLEAN : HandlerThrow(i, e, thr)
  \/ \E i \in Slots, o \in {"resolved", "rejected"}, e \in {NoArg} \cup Errors :
       Settle(i, o, e)
  \/ \E i \in Slots, o \in {"resolved", "rejected"}, e \in {NoArg} \cup Errors, thr \in BOOLEAN :
       Resume(i, o, e, thr)

SpecTwo == InitTwo /\ [][NextTwo]_vars

\* C17: invocations of one wrapped handler for different requests each
\* have their own guard: an invocation's guard has fired exactly when its
\* own continuation was reached, its continuation is reached at most once,
\* the wrapper reaches it only for its own settlement and with its own
\* outcome, and it is reached whenever the handler left that to the
\* wrapper, whatever the other invocations did.
C17_Independent ==
  \A i \in Slots :
    /\ from[i] = 0
    /\ called[i] = (log[i] # << >>)
    /\ Len(log[i]) <= 1
    /\ \A k \in DOMAIN log[i] :
         log[i][k].by = "wrapper" => pc[i] = "done" /\ log[i][k].arg = RefArg(i)
    /\ pc[i] = "done" /\ ~ByHandler(i) =>
         Len(log[i]) = 1 /\ log[i][1].arg = RefArg(i) /\ log[i][1].by = "wrapper"

\* Two invocations in flight: the handler of one passed an error on itself
\* and resolved, the other rejected and the wrapper passed its error on.
C17_Witness ==
  \E i, j \in Slots :
    /\ i # j
    /\ pc[i] = "done" /\ outcome[i] = "resolved"
    /\ log[i] = <<Entry(OwnErr, "handler", FALSE)>>
    /\ pc[j] = "done" /\ outcome[j] = "rejected"
    /\ log[j] = <<Entry(err[j], "wrapper", FALSE)>>

\* ------------------------------------------- the once guard on its own
\* g = once(fn) for an arbitrary fn: fn may call g again while it runs,
\* may throw, may return a value.
GArgs == {"a1", "a2"}
GThis == {"t1", "t2"}
FnValues == {"v1", Undefined}

\* g is called with arguments a and context c: from outside, or from
\* inside fn while fn runs.
GCall(a, c) ==
  /\ gN < MaxCalls
  /\ gN' = gN + 1
  /\ gCalls' = Append(gCalls, [args |-> a, this |-> c])
  /\ LET g == onceGate(gCalled)
     IN /\ gCalled' = g.called
        /\ IF g.apply
           THEN /\ fnLog' = Append(fnLog, [call |-> gN + 1] @@ onceForward(a, c))
                /\ gStack' = Append(gStack, gN + 1)
                /\ gRet' = gRet
           ELSE /\ gRet' = Append(gRet, [call |-> gN + 1, result |-> Undefined])
                /\ UNCHANGED <<fnLog, gStack>>
  /\ UNCHANGED <<chainVars, wrapped, argVars, augVars>>

\* fn returns v to onceWrapped, which returns to its caller.
FnReturn(v) ==
  /\ gStack # <<>>
  /\ gStack' = SubSeq(gStack, 1, Len(gStack) - 1)
  /\ gRet' = Append(gRet, [call |-> gStack[Len(gStack)], result |-> onceResult(v)])
  /\ UNCHANGED <<gCalled, gN, gCalls, fnLog, chainVars, wrapped, argVars, augVars>>

\* fn throws: the exception passes through onceWrapped to its caller.
FnThrow ==
  /\ gStack # <<>>
  /\ gStack' = SubSeq(gStack, 1, Len(gStack) - 1)
  /\ gRet' = Append(gRet, [call |-> gStack[Len(gStack)], result |-> "threw"])
  /\ UNCHANGED <<gCalled, gN, gCalls, fnLog, chainVars, wrapped, argVars, augVars>>

InitOnce ==
  /\ RegIdle
  /\ ChainIdle
  /\ OnceIdle
  /\ WrapIdle
  /\ ArgIdle
  /\ AugIdle

NextOnce ==
  \/ \E a \in GArgs, c \in GThis : GCall(a, c)
  \/ \E v \in FnValues : FnReturn(v)
  \/ FnThrow

SpecOnce == InitOnce /\ [][NextOnce]_vars

\* C6: however g = once(fn) is called, from outside or from inside fn, and
\* whether or not fn threw, fn is invoked exactly once, with the arguments
\* and context of the first call; every later call returns undefined
\* without raising.
C6_OnceOnly ==
  /\ Len(fnLog) = IF gN >= 1 THEN 1 ELSE 0
  /\ gN >= 1 =>
       fnLog[1] = [call |-> 1, args |-> gCalls[1].args, this |-> gCalls[1].this]
  /\ \A k \in DOMAIN gRet :
       IF gRet[k].call = 1 THEN gRet[k].result \in {Undefined, "threw"}
       ELSE gRet[k].result = Undefined

\* g was called again from inside fn, fn then threw, and g was called once
\* more afterwards, with other arguments than the first call's.
C6_Witness ==
  /\ gRet = << [call |-> 2, result |-> Undefined], [call |-> 1, result |-> "threw"],
               [call |-> 3, result |-> Undefined] >>
  /\ gCalls[1] # gCalls[2] /\ gCalls[1] # gCalls[3]
  /\ Len(fnLog) = 1

\* ------------------------------------------------ wrap and wrapParam
\* wrap(fn) for a function declared with decl parameters: the function it
\* returns, by the properties the framework reads.
Wrap(decl) ==
  /\ Len(wrapped) < MaxWrapped
  /\ wrapped' = Append(wrapped, wrap(UserFn(decl)))
  /\ UNCHANGED <<chainVars, onceVars, argVars, augVars>>

WrapParam(decl) ==
  /\ Len(wrapped) < MaxWrapped
  /\ wrapped' = Append(wrapped, wrapParam(UserFn(decl)))
  /\ UNCHANGED <<chainVars, onceVars, argVars, augVars>>

InitWrap ==
  /\ RegIdle
  /\ ChainIdle
  /\ OnceIdle
  /\ WrapIdle
  /\ ArgIdle
  /\ AugIdle

NextWrap ==
  \/ \E decl \in 0..MaxArity : Wrap(decl)
  \/ \E decl \in 0..MaxArity : WrapParam(decl)

SpecWrap == InitWrap /\ [][NextWrap]_vars

\* C8: wrap(h) reports length 4 when h is declared with exactly 4
\* parameters and 3 for any other declared count; wrapParam(h) reports 5
\* whatever h declares.
C8_Arity ==
  \A k \in DOMAIN wrapped :
    IF wrapped[k].via = "wrap"
    THEN wrapped[k].length = IF wrapped[k].decl = 4 THEN 4 ELSE 3
    ELSE wrapped[k].length = 5

\* wrap was given a function of 5 parameters and wrapParam one of none.
C8_Witness ==
  /\ Len(wrapped) = 2
  /\ wrapped[1].via = "wrap" /\ wrapped[1].decl = 5 /\ wrapped[1].length = 3
  /\ wrapped[2].via = "wrapParam" /\ wrapped[2].decl = 0 /\ wrapped[2].length = 5

\* ------------------------------------------------ the argument classifier
\* What a registration method may be given: a path, a pattern, a handler,
\* something else, or a sequence of those.
Atoms ==
  {PathArg, [kind |-> "regexp"], UserFn(3), UserFn(4),
   [kind |-> "number"], [kind |-> "object"]}

Seq2(items) == [kind |-> "array", ref |-> "given", items |-> items]

\* Sequences of at most two elements, nested to depth d, a nested sequence
\* at either position.
RECURSIVE Shapes(_)
Shapes(d) ==
  IF d = 0 THEN Atoms
  ELSE LET inner == Shapes(d - 1)
       IN Atoms \cup {Seq2(<<>>)}
          \cup {Seq2(<<x>>) : x \in inner}
          \cup {Seq2(<<a, x>>) : a \in Atoms, x \in inner}
          \cup {Seq2(<<x, a>>) : a \in Atoms, x \in inner}

\* The call _wrapArg(arg) as its caller sees it: a value, or a TypeError.
wrapArgCall(arg) ==
  LET v == _wrapArg(arg)
  IN IF Threw(v) THEN [kind |-> "TypeError"] ELSE v

GiveArg(arg) ==
  /\ argIn = NotCalled
  /\ argIn' = arg
  /\ UNCHANGED <<argOut, chainVars, onceVars, wrapped, augVars>>

Classify ==
  /\ argIn # NotCalled /\ argOut = NotCalled
  /\ argOut' = wrapArgCall(argIn)
  /\ UNCHANGED <<argIn, chainVars, onceVars, wrapped, augVars>>

InitArg ==
  /\ RegIdle
  /\ ChainIdle
  /\ OnceIdle
  /\ WrapIdle
  /\ ArgIdle
  /\ AugIdle

NextArg ==
  \/ \E arg \in Shapes(MaxDepth) : GiveArg(arg)
  \/ Classify

SpecArg == InitArg /\ [][NextArg]_vars

\* An argument the classifier accepts: path, pattern, function, or a
\* sequence of accepted arguments.
RECURSIVE Accepted(_)
Accepted(a) ==
  IF a.kind \in {"string", "regexp", "function"} THEN TRUE
  ELSE IF a.kind = "array" THEN \A k \in DOMAIN a.items : Accepted(a.items[k])
  ELSE FALSE

\* out is a classified as the claim describes it.
RECURSIVE Classified(_, _)
Classified(a, out) ==
  IF a.kind \in {"string", "regexp"} THEN out = a
  ELSE IF a.kind = "function"
    THEN /\ out.kind = "function" /\ out.via = "wrap" /\ out.decl = a.length
         /\ out.length = (IF a.length = 4 THEN 4 ELSE 3)
  ELSE /\ out.kind = "array" /\ out.ref # a.ref
       /\ Len(out.items) = Len(a.items)
       /\ \A k \in DOMAIN a.items : Classified(a.items[k], out.items[k])

\* C11: the classifier returns a path or a pattern unchanged, wraps a
\* function, maps a sequence to a new sequence of the same length and
\* order with every element classified, to any depth, and fails on
\* anything else, wherever it occurs.
C11_Classifier ==
  argOut # NotCalled =>
    IF Accepted(argIn) THEN argOut.kind # "TypeError" /\ Classified(argIn, argOut)
    ELSE argOut.kind = "TypeError"

\* A sequence of a path and a nested sequence holding a pattern and a
\* function was classified: a new sequence, the function wrapped in place.
C11_Witness ==
  /\ argIn = Seq2(<<PathArg, Seq2(<<[kind |-> "regexp"], UserFn(4)>>)>>)
  /\ argOut.kind = "array" /\ Len(argOut.items) = 2
  /\ argOut.items[1] = PathArg
  /\ argOut.items[2].items[1] = [kind |-> "regexp"]
  /\ argOut.items[2].items[2].via = "wrap"

\* ----------------------------------------------------- addAsync, Router
DefaultMethods == <<"use", "delete", "get", "head", "param", "patch", "post", "put">>

\* Array.prototype.indexOf, counted from 0; -1 when absent.
indexOf(list, x) ==
  IF \E k \in DOMAIN list : list[k] = x
  THEN Min({k \in DOMAIN list : list[k] = x}) - 1
  ELSE -1

\* list.splice(idx, 1): the list without its element at idx (from 0).
splice(list, idx) == SubSeq(list, 1, idx) \o SubSeq(list, idx + 2, Len(list))

\* The property name `${method}Async`.
AsyncName(method) == <<method, "Async">>

\* obj[name] = impl
assign(table, name, impl) ==
  [n \in DOMAIN table \cup {name} |-> IF n = name THEN impl ELSE table[n]]

routeMethod(app) == [impl |-> "routeAsync", app |-> app]
paramMethod(app) == [impl |-> "paramAsync", app |-> app]
verbMethod(app, method) == [impl |-> "verbAsync", app |-> app, method |-> method]

\* for (const method of methods) Object.assign(app, { [`${method}Async`] ... })
RECURSIVE installVerbs(_, _, _)
installVerbs(table, app, methods) ==
  IF methods = << >> THEN table
  ELSE installVerbs(assign(table, AsyncName(Head(methods)), verbMethod(app, Head(methods))),
                    app, Tail(methods))

\* addAsync(app, methods): the methods on app afterwards, the methods array
\* afterwards, and the value returned.
addAsync(table, app, methods) ==
  LET t1 == assign(table, AsyncName("route"), routeMethod(app))
      paramIndex == indexOf(methods, "param")
      m2 == IF paramIndex # -1 THEN splice(methods, paramIndex) ELSE methods
      t2 == IF paramIndex # -1 THEN assign(t1, AsyncName("param"), paramMethod(app)) ELSE t1
  IN [table |-> installVerbs(t2, app, m2), methods |-> m2, returned |-> app]

\* The native methods of what the framework makes: a router registers
\* middleware, param hooks and sub-routes; a route only verb handlers.
NativeMethods(kind) ==
  IF kind = "router"
  THEN {"use", "delete", "get", "head", "param", "patch", "post", "put", "route"}
  ELSE IF kind = "route" THEN {"delete", "get", "head", "patch", "post", "put"}
  ELSE {}

ObjResult(o) == [kind |-> "object", id |-> o]
TypeErrorResult == [kind |-> "TypeError"]

Fresh == CHOOSE o \in Objs : kindOf[o] = "none" /\ \A q \in Objs : q < o => kindOf[q] # "none"

Augs == LET n[o \in 0..MaxObjs] == IF o = 0 THEN 0 ELSE n[o - 1] + Len(augLog[o])
        IN n[MaxObjs]

\* addAsync(app) with the default methods, or addAsync(app, methods) with
\* the caller's array.
AddAsync(app, src) ==
  /\ kindOf[app] = "router"
  /\ Augs < MaxAugs
  /\ LET r == addAsync(installed[app], app, IF src = "default" THEN DefaultMethods ELSE mlist)
     IN /\ installed' = [installed EXCEPT ![app] = r.table]
        /\ mlist' = IF src = "default" THEN mlist ELSE r.methods
        /\ augLog' = [augLog EXCEPT ![app] = Append(@, [src |-> src,
                        given |-> IF src = "default" THEN DefaultMethods ELSE mlist,
                        returned |-> r.returned])]
  /\ UNCHANGED <<kindOf, asyncLog, chainVars, onceVars, wrapped, argVars>>

\* Router() / Router(methods): addAsync on a router the framework makes.
Router(src) ==
  /\ \E o \in Objs : kindOf[o] = "none"
  /\ Augs < MaxAugs
  /\ LET app == Fresh
         r == addAsync(installed[app], app, IF src = "default" THEN DefaultMethods ELSE mlist)
     IN /\ kindOf' = [kindOf EXCEPT ![app] = "router"]
        /\ installed' = [installed EXCEPT ![app] = r.table]
        /\ mlist' = IF src = "default" THEN mlist ELSE r.methods
        /\ augLog' = [augLog EXCEPT ![app] = Append(@, [src |-> src,
                        given |-> IF src = "default" THEN DefaultMethods ELSE mlist,
                        returned |-> r.returned])]
  /\ UNCHANGED <<asyncLog, chainVars, onceVars, wrapped, argVars>>

viaNativeNoReturn(o, name, argList, app, b) ==
  LET made == IF b.calls # << >> /\ b.calls[1].method \in NativeMethods(kindOf[app])
              THEN b.calls ELSE << >>
      result == IF b.threw \/ made = << >> THEN TypeErrorResult ELSE [kind |-> "undefined"]
  IN /\ asyncLog' = <<
          [on |-> o, name |-> name, args |-> argList, augs |-> Len(augLog[o]),
           made |-> [k \in DOMAIN made |-> made[k] @@ [on |-> app]],
           result |-> result]>>
     /\ UNCHANGED <<kindOf, installed, mlist, augLog>>

\* A call of an installed method that ends in a native method of app: the
\* native call is made when the body got that far and app has the method.
viaNative(o, name, argList, app, b) ==
  LET made == IF b.calls # << >> /\ b.calls[1].method \in NativeMethods(kindOf[app])
              THEN b.calls ELSE << >>
      result == IF b.threw \/ made = << >> THEN TypeErrorResult ELSE ObjResult(app)
  IN /\ asyncLog' = <<
          [on |-> o, name |-> name, args |-> argList, augs |-> Len(augLog[o]),
           made |-> [k \in DOMAIN made |-> made[k] @@ [on |-> app]],
           result |-> result]>>
     /\ UNCHANGED <<kindOf, installed, mlist, augLog>>

routeAsyncPlain(o, name, argList) ==
  IF "route" \notin NativeMethods(kindOf[o])
  THEN /\ asyncLog' = <<
            [on |-> o, name |-> name, args |-> argList, augs |-> Len(augLog[o]),
             made |-> << >>, result |-> TypeErrorResult]>>
       /\ UNCHANGED <<kindOf, installed, mlist, augLog>>
  ELSE /\ \E q \in Objs : kindOf[q] = "none"
       /\ LET sub == Fresh
              call == [method |-> "route", args |-> argList]
          IN /\ kindOf' = [kindOf EXCEPT ![sub] = "route"]
             /\ asyncLog' = <<
                    [on |-> o, name |-> name, args |-> argList, augs |-> Len(augLog[o]),
                     made |-> <<call @@ [on |-> o]>>, result |-> ObjResult(sub)]>>
             /\ UNCHANGED <<mlist, installed, augLog>>

\* routeAsync: addAsync(this.route.apply(this, arguments)).
routeAsync(o, name, argList) ==
  IF "route" \notin NativeMethods(kindOf[o])
  THEN /\ asyncLog' = <<
            [on |-> o, name |-> name, args |-> argList, augs |-> Len(augLog[o]),
             made |-> << >>, result |-> TypeErrorResult]>>
       /\ UNCHANGED <<kindOf, installed, mlist, augLog>>
  ELSE /\ \E q \in Objs : kindOf[q] = "none"
       /\ LET sub == Fresh
              call == [method |-> "route", args |-> argList]
              r == addAsync(installed[sub], sub, DefaultMethods)
          IN /\ kindOf' = [kindOf EXCEPT ![sub] = "route"]
             /\ installed' = [installed EXCEPT ![sub] = r.table]
             /\ augLog' = [augLog EXCEPT ![sub] = Append(@,
                    [src |-> "default", given |-> DefaultMethods, returned |-> r.returned])]
             /\ asyncLog' = <<
                    [on |-> o, name |-> name, args |-> argList, augs |-> Len(augLog[o]),
                     made |-> <<call @@ [on |-> o]>>, result |-> ObjResult(r.returned)]>>
             /\ UNCHANGED mlist

\* o[name](...argList) for a method addAsync installed on o.
CallAsync(o, name, argList) ==
  /\ kindOf[o] # "none"
  /\ name \in DOMAIN installed[o]
  /\ LET m == installed[o][name]
     IN IF m.impl = "routeAsync" THEN routeAsync(o, name, argList)
        ELSE IF m.impl = "paramAsync"
          THEN /\ Len(argList) = 2 /\ argList[2].kind = "function"
               /\ viaNative(o, name, argList, m.app, paramAsyncBody(argList[1], argList[2]))
        ELSE viaNative(o, name, argList, m.app, asyncMethodBody(m.method, argList))
  /\ UNCHANGED <<chainVars, onceVars, wrapped, argVars>>

\* The arrays of verb names a caller passes: with "param" once, not at
\* all, and more than once.
MethodLists ==
  {<<"get", "param">>, <<"param", "use">>, <<"use", "get", "param">>, <<"get", "use">>,
   <<"param", "param">>, <<"param", "get", "param">>}

\* Argument lists given to a verb method: accepted ones, and ones with
\* something else after a handler, before it, or nested in a sequence.
HandlerLists ==
  {<<PathArg, Seq2(<<UserFn(3), UserFn(4)>>)>>,
   <<PathArg, UserFn(3), [kind |-> "number"]>>,
   <<[kind |-> "object"], UserFn(3)>>,
   <<UserFn(4), Seq2(<<UserFn(3), [kind |-> "object"]>>)>>}

CalledVerbs == {"get", "use"}

InitAug ==
  /\ RegIdle
  /\ ChainIdle
  /\ OnceIdle
  /\ WrapIdle
  /\ ArgIdle
  /\ ObjIdle
  /\ mlist \in MethodLists

NextAug ==
  \/ \E o \in Objs, src \in {"default", "list"} : AddAsync(o, src)
  \/ \E src \in {"default", "list"} : Router(src)
  \/ \E o \in Objs, v \in CalledVerbs, argList \in HandlerLists :
       CallAsync(o, AsyncName(v), argList)
  \/ \E o \in Objs : CallAsync(o, AsyncName("param"), <<ParamName, UserFn(4)>>)
  \/ \E o \in Objs : CallAsync(o, AsyncName("route"), <<PathArg>>)

SpecAug == InitAug /\ [][NextAug]_vars

Range(seq) == {seq[k] : k \in DOMAIN seq}

Count(seq, x) == Cardinality({k \in DOMAIN seq : seq[k] = x})

\* The methods one call of addAsync(o, given) leaves on an object that had
\* none: routeAsync, unless given names "route"; the dedicated paramAsync
\* when given names "param" exactly once (only the first "param" is taken
\* out of the array, and the loop binds the name again for any other); and
\* the generic method for every other name.
ExpectedMethods(o, given) ==
  [n \in {AsyncName("route")} \cup {AsyncName(v) : v \in Range(given)} |->
     IF n = AsyncName("route") /\ "route" \notin Range(given)
       THEN [impl |-> "routeAsync", app |-> o]
     ELSE IF n = AsyncName("param") /\ Count(given, "param") = 1
       THEN [impl |-> "paramAsync", app |-> o]
     ELSE [impl |-> "verbAsync", app |-> o, method |-> n[1]]]

VerbCall(e) == e.name[1] \in CalledVerbs

\* The effect of a verb method on accepted arguments: one native call of
\* the verb on the same object with the classified arguments in order, and
\* that call's result.
ForwardedOnce(e) ==
  /\ Len(e.made) = 1
  /\ e.made[1].on = e.on /\ e.made[1].method = e.name[1]
  /\ Len(e.made[1].args) = Len(e.args)
  /\ \A k \in DOMAIN e.args : Classified(e.args[k], e.made[1].args[k])
  /\ e.result = ObjResult(e.on)

\* C12: a verb method given an argument that is not a path, a pattern, a
\* function or a sequence of those, at any position or nested, throws to its
\* caller and makes no native call: nothing is registered.
C12_NothingRegistered ==
  /\ \A k \in DOMAIN asyncLog :
       LET e == asyncLog[k]
       IN VerbCall(e) /\ (\E h \in DOMAIN e.args : ~Accepted(e.args[h])) =>
            e.result = TypeErrorResult /\ e.made = << >>

\* getAsync was given a path, a handler and a number on a router that has
\* the native method: it threw and the router received no call.
C12_Witness ==
  \E k \in DOMAIN asyncLog :
    /\ asyncLog[k].name = AsyncName("get") /\ kindOf[asyncLog[k].on] = "router"
    /\ asyncLog[k].args = <<PathArg, UserFn(3), [kind |-> "number"]>>
    /\ asyncLog[k].result = TypeErrorResult
    /\ asyncLog[k].made = << >>

\* C13: addAsync returns the object it was given and leaves on it, for
\* every verb v of the methods array other than "param", a method vAsync;
\* called with accepted arguments on an object that has the native v, it
\* calls native v once with the classified arguments in order and returns
\* that call's result.
C13_Installs ==
  /\ \A o \in Objs : \A k \in DOMAIN augLog[o] :
       /\ augLog[o][k].returned = o
       /\ \A v \in Range(augLog[o][k].given) \ {"param"} :
            /\ AsyncName(v) \in DOMAIN installed[o]
            /\ installed[o][AsyncName(v)] = [impl |-> "verbAsync", app |-> o, method |-> v]
  /\ \A k \in DOMAIN asyncLog :
       LET e == asyncLog[k]
       IN /\ VerbCall(e) /\ \A h \in DOMAIN e.args : Accepted(e.args[h])
          /\ e.name[1] \in NativeMethods(kindOf[e.on])
          => ForwardedOnce(e)

\* A router augmented with the caller's array was given a path and a
\* sequence of two handlers through useAsync.
C13_Witness ==
  \E k \in DOMAIN asyncLog :
    LET e == asyncLog[k]
    IN /\ e.name = AsyncName("use") /\ augLog[e.on][1].src = "list"
       /\ e.args = <<PathArg, Seq2(<<UserFn(3), UserFn(4)>>)>>
       /\ Len(e.made) = 1 /\ e.made[1].args[2].items[2].length = 4
       /\ e.result = ObjResult(e.on)

SameSource(o) == \A k \in DOMAIN augLog[o] : augLog[o][k].src = augLog[o][1].src

\* C14 as stated: an object augmented again, with the default methods or
\* with the same array, has the methods one augmentation with that array
\* leaves, and a verb method called afterwards has the effect it has after
\* one augmentation.
C14_AsStated ==
  /\ \A o \in Objs :
       augLog[o] # << >> /\ SameSource(o) =>
         installed[o] = ExpectedMethods(o, augLog[o][1].given)
  /\ \A k \in DOMAIN asyncLog :
       LET e == asyncLog[k]
       IN /\ e.augs >= 2 /\ VerbCall(e) /\ \A h \in DOMAIN e.args : Accepted(e.args[h])
          /\ e.name[1] \in NativeMethods(kindOf[e.on])
          => ForwardedOnce(e)

\* C15: routeAsync on a router calls its native route with the same
\* arguments, augments the route that call made and returns it; a verb
\* method called on that route registers the wrapped handlers on it.
C15_RouteAsync ==
  \A k \in DOMAIN asyncLog :
    LET e == asyncLog[k]
    IN /\ e.name = AsyncName("route") /\ kindOf[e.on] = "router" =>
            /\ e.made = <<[method |-> "route", args |-> e.args, on |-> e.on]>>
            /\ e.result.kind = "object" /\ kindOf[e.result.id] = "route"
            /\ e.result.id # e.on
            /\ augLog[e.result.id] # << >> /\ augLog[e.result.id][1].returned = e.result.id
            /\ installed[e.result.id] = ExpectedMethods(e.result.id, DefaultMethods)
       /\ /\ kindOf[e.on] = "route" /\ VerbCall(e) /\ e.name[1] = "get"
          /\ \A h \in DOMAIN e.args : Accepted(e.args[h])
          => /\ ForwardedOnce(e)
             /\ augLog[e.on] # << >>

\* As in the repository's chaining test: routeAsync(path) on a router, then
\* getAsync with handlers on the route it returned.
C15_Witness ==
  \E k \in DOMAIN asyncLog :
    LET e == asyncLog[k]
    IN /\ kindOf[e.on] = "route" /\ augLog[e.on] # << >>
       /\ e.name = AsyncName("get")
       /\ e.made # << >> /\ e.made[1].on = e.on /\ e.made[1].method = "get"
       /\ e.made[1].args[2].items[1].via = "wrap"

\* C19 as stated: addAsync leaves the caller's array as it was, so every
\* object augmented with the array that held "param" has paramAsync and
\* the same Async methods.
C19_AsStated ==
  \A o, q \in Objs :
    \A k \in DOMAIN augLog[o], h \in DOMAIN augLog[q] :
      o # q /\ augLog[o][k].src = "list" /\ augLog[q][h].src = "list" =>
        /\ augLog[o][k].given = augLog[q][h].given
        /\ (Len(augLog[o]) = 1 /\ Len(augLog[q]) = 1 =>
              DOMAIN installed[o] = DOMAIN installed[q])
        /\ ("param" \in Range(augLog[o][k].given) => AsyncName("param") \in DOMAIN installed[q])

====
